---- MODULE Spec2Model ----
(***************************************************************************)
(* Mapty (src/script.js): the workout classes, the App object's private    *)
(* state, the localStorage entry 'workouts', the rendered list and the     *)
(* markers, with one action per event handler.  JavaScript runs each       *)
(* handler to completion, so a handler is one atomic action.               *)
(***************************************************************************)
EXTENDS Integers, Sequences, FiniteSets, TLC

\* ---------------------------------------------------------------- bounds
\* Longest collection the model builds (stored and created workouts together).
MaxWorkouts == 2
\* Last instant of the model's clock (Date.now() takes the values 1..MaxTime).
MaxTime == 2

\* ------------------------------------------------------- program constants
mapZoomLevel == 13
MinutesPerHour == 60

VARIABLES
  pc,          \* "script": the page is loaded, new App() has not run; "run": it has
  started,     \* the three listeners of the constructor are attached
  storage,     \* localStorage entry 'workouts'
  workouts,    \* App.#workouts
  list,        \* the <li class="workout"> elements after the form, top to bottom
  markers,     \* the Leaflet markers added to the map, in order of creation
  mapLoaded,   \* App.#map is defined
  mapView,     \* centre and zoom last given to setView
  mapEvent,    \* App.#mapEvent
  formHidden,  \* form.classList contains 'hidden'
  formDisplay, \* form.style.display; while it is 'none' a setTimeout of _hideForm is pending
  rowHidden,   \* 'form__row--hidden' on the cadence and the elevation row
  geo,         \* the geolocation request: idle, unsupported, pending, success, failed
  alertMsg,    \* the alert() shown by the last handler, "" when it showed none
  uncaught,    \* the exception the last handler let escape, "none" otherwise
  now,         \* Date.now()
  writes,      \* localStorage.setItem calls of this page load
  saved        \* the collection given to the last JSON.stringify

vars == <<pc, started, storage, workouts, list, markers, mapLoaded, mapView,
          mapEvent, formHidden, formDisplay, rowHidden, geo, alertMsg,
          uncaught, now, writes, saved>>

\* ------------------------------------------------------------ JS numbers
\* A number is a reduced fraction n/d with d > 0; d = 0 encodes the values that
\* Number.isFinite rejects: NaN is 0/0 and Infinity is 1/0.
RECURSIVE GCD(_, _)
GCD(a, b) == IF b = 0 THEN a ELSE GCD(b, a % b)

Abs(i) == IF i < 0 THEN -i ELSE i

Rat(n, d) ==
  LET g == GCD(Abs(n), Abs(d))
      s == IF d < 0 THEN -1 ELSE 1
  IN  [n |-> s * (n \div g), d |-> s * (d \div g)]

Num(i) == [n |-> i, d |-> 1]
NaN == [n |-> 0, d |-> 0]
Infinity == [n |-> 1, d |-> 0]

IsNumber(v) == "d" \in DOMAIN v

\* The / operator on numbers.
Divide(a, b) ==
  IF a.d = 0 \/ b.d = 0 THEN NaN
  ELSE IF b.n = 0 THEN (IF a.n = 0 THEN NaN ELSE Infinity)
  ELSE Rat(a.n * b.d, a.d * b.n)

\* Unary plus on the value of a form input.
ToNumber(s) ==
  CASE s = ""    -> Num(0)
    [] s = "-5"  -> Num(-5)
    [] s = "5"   -> Num(5)
    [] s = "30"  -> Num(30)
    [] s = "170" -> Num(170)
    [] OTHER     -> NaN

\* Number.prototype.toFixed(1): the decimal string with one digit, as tenths.
toFixed1(x) ==
  IF x.d = 0 THEN [text |-> IF x.n = 0 THEN "NaN" ELSE "Infinity"]
  ELSE LET t == (20 * Abs(x.n) + x.d) \div (2 * x.d)
       IN  [tenths |-> IF x.n < 0 THEN -t ELSE t]

\* ------------------------------------------------------------------ Date
months == <<"January", "February", "March", "April", "May", "June", "July",
            "August", "September", "October", "November", "December">>

\* The calendar of the model's instants: 1 and 2 fall on July 14, later ones
\* on November 2.
getMonth(t) == IF t <= 2 THEN 6 ELSE 10
getDate(t) == IF t <= 2 THEN 14 ELSE 2

DateObject(t) == [kind |-> "Date", t |-> t]
ISOString(t) == [kind |-> "string", t |-> t]

\* --------------------------------------------------------------- classes
\* (Date.now() + '').slice(-10): a string of digits (the model's instants have
\* fewer than ten digits, so the slice keeps them all).
NewId(t) == [kind |-> "string", v |-> t]

\* Workout: the field initialisers and the constructor.
Workout(coords, distance, duration, t) ==
  [date |-> DateObject(t), id |-> NewId(t), clicks |-> 0,
   coords |-> coords, distance |-> distance, duration |-> duration]

Capitalize(type) ==
  CASE type = "running" -> "Running"
    [] type = "cycling" -> "Cycling"
    [] OTHER -> type

\* Workout._setDescription, on a Date object.
setDescription(type, date) ==
  <<Capitalize(type), "on", months[getMonth(date.t) + 1], getDate(date.t)>>

calcPaceSwapped(duration, distance) == Divide(distance, duration)

\* Running.calcPace
calcPace(duration, distance) == Divide(duration, distance)

\* Cycling.calcSpeed
calcSpeed(distance, duration) == Divide(distance, Divide(duration, Num(MinutesPerHour)))

\* new Running(coords, distance, duration, cadence) at instant t
Running(coords, distance, duration, cadence, t) ==
  LET super == Workout(coords, distance, duration, t)
  IN  [class |-> "Running", date |-> super.date, id |-> super.id,
       clicks |-> super.clicks, coords |-> super.coords,
       distance |-> super.distance, duration |-> super.duration,
       type |-> "running", cadence |-> cadence,
       pace |-> calcPace(duration, distance),
       description |-> setDescription("running", super.date)]

\* new Cycling(coords, distance, duration, elevationGain) at instant t
Cycling(coords, distance, duration, elevationGain, t) ==
  LET super == Workout(coords, distance, duration, t)
  IN  [class |-> "Cycling", date |-> super.date, id |-> super.id,
       clicks |-> super.clicks, coords |-> super.coords,
       distance |-> super.distance, duration |-> super.duration,
       type |-> "cycling", elevationGain |-> elevationGain,
       speed |-> calcSpeed(distance, duration),
       description |-> setDescription("cycling", super.date)]

\* ------------------------------------------------------------------ JSON
JsonNull == [null |-> TRUE]

\* JSON.stringify of a number: a non-finite number is written as null.
JsonNumber(x) == IF IsNumber(x) /\ x.d = 0 THEN JsonNull ELSE x

\* JSON.stringify of a date field: Date.prototype.toJSON gives the ISO string;
\* a string stays a string.
JsonDate(date) == ISOString(date.t)

\* JSON.stringify of one workout: its own enumerable properties; the class
\* (the prototype) is not written.
ToJSON(w) ==
  IF w.type = "running"
  THEN [date |-> JsonDate(w.date), id |-> w.id, clicks |-> w.clicks,
        coords |-> w.coords, distance |-> JsonNumber(w.distance),
        duration |-> JsonNumber(w.duration), type |-> w.type,
        cadence |-> JsonNumber(w.cadence), pace |-> JsonNumber(w.pace),
        description |-> w.description]
  ELSE [date |-> JsonDate(w.date), id |-> w.id, clicks |-> w.clicks,
        coords |-> w.coords, distance |-> JsonNumber(w.distance),
        duration |-> JsonNumber(w.duration), type |-> w.type,
        elevationGain |-> JsonNumber(w.elevationGain),
        speed |-> JsonNumber(w.speed), description |-> w.description]

FromJSONRecomputed(j) ==
  IF j.type = "running"
  THEN [class |-> "Object", date |-> j.date, id |-> j.id, clicks |-> j.clicks,
        coords |-> j.coords, distance |-> j.distance, duration |-> j.duration,
        type |-> j.type, cadence |-> j.cadence,
        pace |-> calcPace(j.duration, j.distance), description |-> j.description]
  ELSE [class |-> "Object", date |-> j.date, id |-> j.id, clicks |-> j.clicks,
        coords |-> j.coords, distance |-> j.distance, duration |-> j.duration,
        type |-> j.type, elevationGain |-> j.elevationGain,
        speed |-> calcSpeed(j.distance, j.duration), description |-> j.description]

\* JSON.parse of one record: a plain object holding the stored values.
FromJSON(j) ==
  IF j.type = "running"
  THEN [class |-> "Object", date |-> j.date, id |-> j.id, clicks |-> j.clicks,
        coords |-> j.coords, distance |-> j.distance, duration |-> j.duration,
        type |-> j.type, cadence |-> j.cadence, pace |-> j.pace,
        description |-> j.description]
  ELSE [class |-> "Object", date |-> j.date, id |-> j.id, clicks |-> j.clicks,
        coords |-> j.coords, distance |-> j.distance, duration |-> j.duration,
        type |-> j.type, elevationGain |-> j.elevationGain, speed |-> j.speed,
        description |-> j.description]

stringify(ws) == [i \in 1..Len(ws) |-> ToJSON(ws[i])]
parse(val) == [i \in 1..Len(val) |-> FromJSON(val[i])]

NoEntry == [kind |-> "null", val |-> <<>>]

setLocalStorageLast(ws) ==
  [kind |-> "json", val |-> stringify(<<ws[Len(ws)]>>)]

\* App._setLocalStorage: the new value of the entry.
setLocalStorage(ws) == [kind |-> "json", val |-> stringify(ws)]

\* ------------------------------------------------------------- rendering
\* `${workout.id}` in an attribute: the id as a string.
String(id) == [kind |-> "string", v |-> id.v]

\* workout.pace.toFixed(1) or workout.speed.toFixed(1) throws a TypeError when the
\* metric is null.
renderWorkoutThrows(w) ==
  IF w.type = "running" THEN ~IsNumber(w.pace) ELSE ~IsNumber(w.speed)

\* App._renderWorkout: the <li> element built from a workout.
renderWorkout(w) ==
  IF w.type = "running"
  THEN [class |-> "workout--running", dataId |-> String(w.id),
        title |-> w.description, distance |-> w.distance, duration |-> w.duration,
        metric |-> toFixed1(w.pace), unit |-> "min/km",
        detail |-> w.cadence, detailUnit |-> "spm"]
  ELSE [class |-> "workout--cycling", dataId |-> String(w.id),
        title |-> w.description, distance |-> w.distance, duration |-> w.duration,
        metric |-> toFixed1(w.speed), unit |-> "km/h",
        detail |-> w.elevationGain, detailUnit |-> "m"]

insertAtEnd(lst, entry) == Append(lst, entry)

\* form.insertAdjacentHTML('afterend', html): the new element comes right after
\* the form, above the elements inserted before it.
insertAfterForm(lst, entry) == <<entry>> \o lst

\* App._renderWorkoutMarker: the marker with its popup.
renderWorkoutMarker(w) ==
  [coords |-> w.coords, className |-> <<w.type, "-popup">>,
   content |-> <<IF w.type = "running" THEN "runner" ELSE "cyclist", w.description>>]

\* workouts.forEach(work => this._renderWorkout(work)) on the list lst, up to
\* the first element whose rendering throws.
RECURSIVE renderEach(_, _, _)
renderEach(ws, i, lst) ==
  IF i > Len(ws) THEN [list |-> lst, error |-> "none"]
  ELSE IF renderWorkoutThrows(ws[i]) THEN [list |-> lst, error |-> "TypeError"]
  ELSE renderEach(ws, i + 1, insertAfterForm(lst, renderWorkout(ws[i])))

\* ---------------------------------------------------------- local storage
\* App._getLocalStorage on a fresh App (#workouts = [], no list element): the
\* collection, the list and the exception that escapes.
getLocalStorage(entry) ==
  IF entry.kind = "text"
  THEN [workouts |-> <<>>, list |-> <<>>, error |-> "SyntaxError"]
  ELSE IF entry.kind = "null"
  THEN [workouts |-> <<>>, list |-> <<>>, error |-> "none"]
  ELSE LET data == parse(entry.val)
           r == renderEach(data, 1, <<>>)
       IN  [workouts |-> data, list |-> r.list, error |-> r.error]

\* ------------------------------------------------------------ validation
\* Number.isFinite
isFinite(x) == x.d > 0

\* inp > 0 (false for NaN, true for Infinity)
GreaterThanZero(x) == x.n > 0

\* validInputs = (...inputs) => inputs.every(inp => Number.isFinite(inp))
validInputs(inputs) == \A i \in 1..Len(inputs) : isFinite(inputs[i])

allNonNegative(inputs) == \A i \in 1..Len(inputs) : inputs[i].n >= 0

\* allPositive = (...inputs) => inputs.every(inp => inp > 0)
allPositive(inputs) == \A i \in 1..Len(inputs) : GreaterThanZero(inputs[i])

InputsMsg == "Inputs have to be positive numbers."
PositionMsg == "Could not get your position"

\* ------------------------------------------------------------ environment
\* Values typed into the form's inputs.
DistanceStrings == {"abc", "", "5", "30"}
DurationStrings == {"abc", "-5", "30"}
CadenceStrings == {"abc", "", "170"}
ElevationStrings == {"abc", "-5"}
Types == {"running", "cycling"}

\* The position the geolocation provider reports, and the place clicked on the map.
Position == <<Rat(407, 10), Num(-74)>>
ClickCoords == {<<Num(51), Num(0)>>}

\* Records an earlier page load left in the entry; the last one holds its id as a
\* number, which the expected structure does not.
StoredRecords ==
  LET run == ToJSON(Running(Position, Num(5), Num(30), Num(170), 1))
      cyc == ToJSON(Cycling(Position, Num(30), Num(5), Num(-5), 2))
  IN  {run, cyc, [run EXCEPT !.id = [kind |-> "number", v |-> 1]]}

Collections(S) == UNION {[1..n -> S] : n \in 0..MaxWorkouts}

InitialStores ==
  {NoEntry, [kind |-> "text", val |-> <<"{not json">>]}
    \cup {[kind |-> "json", val |-> c] : c \in Collections(StoredRecords)}

Undefined == [undefined |-> TRUE]
NoView == [center |-> <<>>, zoom |-> 0]

\* ------------------------------------------------------------------- Init
\* The page as the browser hands it to the script: the form is hidden and shows
\* the cadence row.
PageLoaded ==
  /\ pc = "script"
  /\ started = FALSE
  /\ workouts = <<>>
  /\ list = <<>>
  /\ markers = <<>>
  /\ mapLoaded = FALSE
  /\ mapView = NoView
  /\ mapEvent = Undefined
  /\ formHidden = TRUE
  /\ formDisplay = ""
  /\ rowHidden = [cadence |-> FALSE, elevation |-> TRUE]
  /\ geo = "idle"
  /\ alertMsg = ""
  /\ uncaught = "none"
  /\ writes = 0
  /\ saved = <<>>

Init ==
  /\ PageLoaded
  /\ storage \in InitialStores
  /\ now = 1

\* ---------------------------------------------------------------- actions
\* App._getPosition: with navigator.geolocation present the request is issued.
getPosition(supported) == IF supported THEN "pending" ELSE "unsupported"

\* new App(): _getPosition, _getLocalStorage, then the three addEventListener
\* calls, which an exception of _getLocalStorage skips.
Constructor ==
  /\ pc = "script"
  /\ pc' = "run"
  /\ \E supported \in BOOLEAN : geo' = getPosition(supported)
  /\ LET r == getLocalStorage(storage)
     IN  /\ workouts' = r.workouts
         /\ list' = r.list
         /\ uncaught' = r.error
         /\ started' = (r.error = "none")
  /\ alertMsg' = ""
  /\ UNCHANGED <<storage, markers, mapLoaded, mapView, mapEvent, formHidden,
                 formDisplay, rowHidden, now, writes, saved>>

loadMapNoMarkers(ws, ms) == ms

\* The forEach of App._loadMap: one marker for each workout.
loadMapMarkers(ws, ms) == ms \o [i \in 1..Len(ws) |-> renderWorkoutMarker(ws[i])]

\* App._loadMap, the success callback of getCurrentPosition.
loadMap ==
  /\ pc = "run"
  /\ geo = "pending"
  /\ geo' = "success"
  /\ mapLoaded' = TRUE
  /\ mapView' = [center |-> Position, zoom |-> mapZoomLevel]
  /\ markers' = loadMapMarkers(workouts, markers)
  /\ alertMsg' = ""
  /\ uncaught' = "none"
  /\ UNCHANGED <<pc, started, storage, workouts, list, mapEvent, formHidden,
                 formDisplay, rowHidden, now, writes, saved>>

\* The error callback of getCurrentPosition.
positionError ==
  /\ pc = "run"
  /\ geo = "pending"
  /\ geo' = "failed"
  /\ alertMsg' = PositionMsg
  /\ uncaught' = "none"
  /\ UNCHANGED <<pc, started, storage, workouts, list, markers, mapLoaded, mapView,
                 mapEvent, formHidden, formDisplay, rowHidden, now, writes,
                 saved>>

\* App._showForm, the map's click handler.
showForm(latlng) ==
  /\ mapLoaded
  /\ mapEvent' = [latlng |-> latlng]
  /\ formHidden' = FALSE
  /\ alertMsg' = ""
  /\ uncaught' = "none"
  /\ UNCHANGED <<pc, started, storage, workouts, list, markers, mapLoaded, mapView,
                 formDisplay, rowHidden, geo, now, writes, saved>>

\* App._toggelElevationField, the change handler of the type select (a control
\* of the form, so its events come from the shown form).
toggelElevationField ==
  /\ started
  /\ ~formHidden
  /\ rowHidden' = [cadence |-> ~rowHidden.cadence, elevation |-> ~rowHidden.elevation]
  /\ alertMsg' = ""
  /\ uncaught' = "none"
  /\ UNCHANGED <<pc, started, storage, workouts, list, markers, mapLoaded, mapView,
                 mapEvent, formHidden, formDisplay, geo, now, writes, saved>>

\* The validation of App._newWorkout: TRUE when the handler returns the alert.
rejects(type, distance, duration, extra) ==
  IF type = "running"
  THEN ~validInputs(<<distance, duration, extra>>)
         \/ ~allPositive(<<distance, duration, extra>>)
  ELSE ~validInputs(<<distance, duration, extra>>)
         \/ ~allPositive(<<distance, duration>>)

\* A handler that throws: nothing after the throw runs.
Throws(error) ==
  /\ uncaught' = error
  /\ alertMsg' = ""

\* App._newWorkout, the form's submit handler.  The event comes from the shown
\* form; extra is the value of the cadence input for running and of the
\* elevation input for cycling.
newWorkout(type, distanceStr, durationStr, extraStr) ==
  /\ started
  /\ ~formHidden
  /\ LET distance == ToNumber(distanceStr)
         duration == ToNumber(durationStr)
         extra == ToNumber(extraStr)
     IN  IF mapEvent = Undefined
         THEN /\ Throws("TypeError")
              /\ UNCHANGED <<pc, started, storage, workouts, list, markers,
                             mapLoaded, mapView, mapEvent, formHidden, formDisplay,
                             rowHidden, geo, now, writes, saved>>
         ELSE IF rejects(type, distance, duration, extra)
         THEN /\ alertMsg' = InputsMsg
              /\ uncaught' = "none"
              /\ UNCHANGED <<pc, started, storage, workouts, list, markers,
                             mapLoaded, mapView, mapEvent, formHidden, formDisplay,
                             rowHidden, geo, now, writes, saved>>
         ELSE LET workout == IF type = "running"
                             THEN Running(mapEvent.latlng, distance, duration, extra, now)
                             ELSE Cycling(mapEvent.latlng, distance, duration, extra, now)
              IN  /\ Len(workouts) < MaxWorkouts
                  /\ workouts' = Append(workouts, workout)
                  /\ IF ~mapLoaded
                     THEN /\ Throws("TypeError")
                          /\ UNCHANGED <<markers, list, formHidden, formDisplay,
                                         storage, writes, saved>>
                     ELSE /\ markers' = Append(markers, renderWorkoutMarker(workout))
                          /\ list' = insertAfterForm(list, renderWorkout(workout))
                          /\ formHidden' = TRUE
                          /\ formDisplay' = "none"
                          /\ storage' = setLocalStorage(workouts')
                          /\ writes' = writes + 1
                          /\ saved' = workouts'
                          /\ alertMsg' = ""
                          /\ uncaught' = "none"
                  /\ UNCHANGED <<pc, started, mapLoaded, mapView, mapEvent,
                                 rowHidden, geo, now>>

\* The callback of the setTimeout of App._hideForm.  A callback that finds the
\* display already reset changes nothing, so only the first pending one is a step.
hideFormTimeout ==
  /\ formDisplay = "none"
  /\ formDisplay' = "grid"
  /\ alertMsg' = ""
  /\ uncaught' = "none"
  /\ UNCHANGED <<pc, started, storage, workouts, list, markers, mapLoaded, mapView,
                 mapEvent, formHidden, rowHidden, geo, now, writes, saved>>

\* this.#workouts.find(work => work.id === dataId): the index found, 0 for undefined.
find(ws, dataId) ==
  LET hits == {i \in 1..Len(ws) : ws[i].id = dataId}
  IN  IF hits = {} THEN 0 ELSE CHOOSE i \in hits : \A j \in hits : i <= j

\* App._moveToPopup, the click handler of the list container; k is the list
\* element the click falls in, 0 for a click outside every element.
moveToPopup(k) ==
  /\ started
  /\ k \in 0..Len(list)
  /\ IF k = 0
     THEN /\ alertMsg' = ""
          /\ uncaught' = "none"
          /\ UNCHANGED mapView
     ELSE LET i == find(workouts, list[k].dataId)
          IN  IF ~mapLoaded \/ i = 0
              THEN /\ Throws("TypeError")
                   /\ UNCHANGED mapView
              ELSE /\ mapView' = [center |-> workouts[i].coords, zoom |-> mapZoomLevel]
                   /\ alertMsg' = ""
                   /\ uncaught' = "none"
  /\ UNCHANGED <<pc, started, storage, workouts, list, markers, mapLoaded, mapEvent,
                 formHidden, formDisplay, rowHidden, geo, now, writes, saved>>

\* location.reload(): the page starts again; the storage and the clock stay.
PageReloads ==
  /\ pc' = "script"
  /\ started' = FALSE
  /\ workouts' = <<>>
  /\ list' = <<>>
  /\ markers' = <<>>
  /\ mapLoaded' = FALSE
  /\ mapView' = NoView
  /\ mapEvent' = Undefined
  /\ formHidden' = TRUE
  /\ formDisplay' = ""
  /\ rowHidden' = [cadence |-> FALSE, elevation |-> TRUE]
  /\ geo' = "idle"
  /\ alertMsg' = ""
  /\ uncaught' = "none"
  /\ writes' = 0
  /\ UNCHANGED now

\* App.reset: the entry is removed and the page reloaded.
reset ==
  /\ started
  /\ storage' = NoEntry
  /\ saved' = <<>>
  /\ PageReloads

\* Time passes.
Tick ==
  /\ now < MaxTime
  /\ now' = now + 1
  /\ UNCHANGED <<pc, started, storage, workouts, list, markers, mapLoaded, mapView,
                 mapEvent, formHidden, formDisplay, rowHidden, geo, alertMsg,
                 uncaught, writes, saved>>

Submit ==
  \E type \in Types, distanceStr \in DistanceStrings, durationStr \in DurationStrings :
    \E extraStr \in (IF type = "running" THEN CadenceStrings ELSE ElevationStrings) :
      newWorkout(type, distanceStr, durationStr, extraStr)

MapClick == \E latlng \in ClickCoords : showForm(latlng)

ListClick == \E k \in 0..MaxWorkouts : moveToPopup(k)

Next ==
  \/ Constructor
  \/ loadMap
  \/ positionError
  \/ MapClick
  \/ toggelElevationField
  \/ Submit
  \/ hideFormTimeout
  \/ ListClick
  \/ reset
  \/ Tick

Spec == Init /\ [][Next]_vars

\* ------------------------------------------------- the storage round trip
\* Save and load taken as a pair: a collection in memory is saved, the page is
\* reloaded and the constructor loads what was saved.  The collections are
\* built by the constructors; some have a field altered after construction.
MaxSaves == 1

RTWorkouts ==
  LET run == Running(Position, Num(5), Num(30), Num(170), 1)
      cyc == Cycling(Position, Num(30), Num(5), Num(-5), 2)
  IN  {run, cyc, [run EXCEPT !.clicks = 3]}
        \cup {[run EXCEPT !.pace = v] : v \in {Num(7), NaN}}
        \cup {[cyc EXCEPT !.speed = v] : v \in {Num(7), NaN}}

InitRT ==
  /\ pc = "run"
  /\ started = TRUE
  /\ storage = NoEntry
  /\ workouts \in Collections(RTWorkouts)
  /\ list = renderEach(workouts, 1, <<>>).list
  /\ markers = <<>>
  /\ mapLoaded = FALSE
  /\ mapView = NoView
  /\ mapEvent = Undefined
  /\ formHidden = TRUE
  /\ formDisplay = ""
  /\ rowHidden = [cadence |-> FALSE, elevation |-> TRUE]
  /\ geo = "pending"
  /\ alertMsg = ""
  /\ uncaught = "none"
  /\ now = 1
  /\ writes = 0
  /\ saved = <<>>

\* App._setLocalStorage
Save ==
  /\ pc = "run"
  /\ writes < MaxSaves
  /\ storage' = setLocalStorage(workouts)
  /\ writes' = writes + 1
  /\ saved' = workouts
  /\ UNCHANGED <<pc, started, workouts, list, markers, mapLoaded, mapView, mapEvent,
                 formHidden, formDisplay, rowHidden, geo, alertMsg, uncaught,
                 now>>

\* The user reloads the page.
Reload ==
  /\ pc = "run"
  /\ UNCHANGED <<storage, saved>>
  /\ PageReloads

NextRT ==
  \/ Save
  \/ Reload
  \/ Constructor

SpecRT == InitRT /\ [][NextRT]_vars

\* ----------------------------------------------------------------- claims
IsPrefix(a, b) == Len(a) <= Len(b) /\ \A i \in 1..Len(a) : b[i] = a[i]

Reverse(f) == [i \in 1..Len(f) |-> f[Len(f) - i + 1]]

\* The inputs the validation has to refuse: for running, one of the three is
\* not finite or is <= 0; for cycling, one of the three is not finite, or the
\* distance or the duration is <= 0.
FailsValidation(type, distance, duration, extra) ==
  LET notFinite(x) == x.d = 0
      notPositive(x) == x.d = 0 \/ x.n <= 0
  IN  IF type = "running"
      THEN notPositive(distance) \/ notPositive(duration) \/ notPositive(extra)
      ELSE notPositive(distance) \/ notPositive(duration) \/ notFinite(extra)

C2_StoredIsWholeCollection ==
  /\ [](pc = "run" /\ workouts # <<>>
          => /\ storage.kind = "json"
             /\ Len(storage.val) = Len(workouts)
             /\ \A i \in 1..Len(workouts) : storage.val[i] = ToJSON(workouts[i]))
  /\ [][pc = "run" /\ pc' = "run" /\ workouts' # workouts
          => /\ Len(workouts') = Len(workouts) + 1
             /\ IsPrefix(workouts, workouts')
             /\ writes' = writes + 1
             /\ storage' # storage]_vars

\* C2 witness: a workout created after one was loaded, both in the entry.
C2_Witness ==
  /\ pc = "run"
  /\ Len(workouts) = 2
  /\ workouts[1].class = "Object"
  /\ workouts[2].class = "Cycling"
  /\ writes = 1
  /\ Len(storage.val) = 2

\* What the claim lists as the fields of a record.
Metric(w) == IF w.type = "running" THEN w.pace ELSE w.speed
Extra(w) == IF w.type = "running" THEN w.cadence ELSE w.elevationGain

Fields(w) ==
  <<w.id, w.date, w.coords, w.distance, w.duration, w.type, w.description,
    Extra(w), Metric(w), w.clicks>>

\* A load of what the last save wrote.
LoadsTheSaved ==
  /\ Constructor
  /\ storage.kind = "json"
  /\ Len(saved) > 0
  /\ storage.val = stringify(saved)

\* C3 as stated: loading what save wrote gives back every field of every
\* record as it was saved.
C3_RoundTripEveryField ==
  [][LoadsTheSaved
       => /\ Len(workouts') = Len(saved)
          /\ \A i \in 1..Len(saved) : Fields(workouts'[i]) = Fields(saved[i])]_vars

\* One record after the round trip: the creation time is the ISO string of the
\* same instant, a pace or speed that is not finite is null, and every other
\* field, a finite pace or speed included, is the saved value.
SameButDateAndNonFinite(loaded, sv) ==
  /\ loaded.id = sv.id
  /\ loaded.date = [kind |-> "string", t |-> sv.date.t]
  /\ loaded.coords = sv.coords
  /\ loaded.distance = sv.distance
  /\ loaded.duration = sv.duration
  /\ loaded.type = sv.type
  /\ loaded.description = sv.description
  /\ Extra(loaded) = Extra(sv)
  /\ loaded.clicks = sv.clicks
  /\ Metric(loaded) = IF IsNumber(Metric(sv)) /\ Metric(sv).d = 0
                      THEN [null |-> TRUE]
                      ELSE Metric(sv)

\* C3 (amended): loading what save wrote gives a collection of the same length
\* and order whose records equal the saved ones in every field except that the
\* creation time comes back as a string and a non-finite pace or speed as null;
\* an altered finite pace or speed comes back as altered, and every record that
\* is rendered is rendered by the branch of its saved variant.
C3_RoundTripButDate ==
  [][LoadsTheSaved
       => /\ Len(workouts') = Len(saved)
          /\ \A i \in 1..Len(saved) : SameButDateAndNonFinite(workouts'[i], saved[i])
          /\ \A k \in 1..Len(list') :
               LET sv == saved[Len(list') - k + 1]
               IN  /\ list'[k].class = IF sv.type = "running"
                                       THEN "workout--running"
                                       ELSE "workout--cycling"
                   /\ list'[k].unit = IF sv.type = "running" THEN "min/km" ELSE "km/h"
                   /\ list'[k].metric = toFixed1(Metric(sv))]_vars

\* C3 witness: a running and a cycling workout, the first with a pace altered
\* after construction, were saved and loaded again.
C3_Witness ==
  /\ pc = "run"
  /\ Len(saved) = 2
  /\ Len(workouts) = 2
  /\ storage.val = stringify(saved)
  /\ saved[1].class = "Running"
  /\ saved[1].pace = Num(7)
  /\ saved[2].class = "Cycling"
  /\ workouts[1].class = "Object"
  /\ workouts[1].pace = Num(7)
  /\ Len(list) = 2

\* The entry holds content that is unparsable or does not have the expected
\* structure (an id that is not a string).
Malformed(entry) ==
  \/ entry.kind = "text"
  \/ /\ entry.kind = "json"
     /\ \E i \in 1..Len(entry.val) : entry.val[i].id.kind # "string"

\* C4: startup on a malformed entry treats the store as empty: the collection and
\* the list are empty afterwards, no exception escapes and the handlers are
\* attached.
C4_MalformedStoreIsEmpty ==
  [][Constructor /\ Malformed(storage)
       => /\ workouts' = <<>>
          /\ list' = <<>>
          /\ uncaught' = "none"
          /\ started']_vars

\* C5: when the position request fails the user is told, and from then on the
\* request stays failed, the map stays undefined, the list keeps its entries and
\* no handler lets an exception escape.
C5_NoMapStaysFunctional ==
  [][/\ positionError => alertMsg' = PositionMsg
     /\ (geo = "failed" /\ pc' = "run")
          => /\ geo' = "failed"
             /\ ~mapLoaded'
             /\ IsPrefix(Reverse(list), Reverse(list'))
             /\ uncaught' = "none"]_vars

\* C6: with the map loaded, a click on a list element whose id no workout of a
\* non-empty collection has is a silent no-op: nothing escapes and the collection, the stored entry
\* and the map view stay as they were.
C6_AbsentIdIsNoOp ==
  [][\A k \in 1..Len(list) :
       (/\ moveToPopup(k)
        /\ mapLoaded
        /\ workouts # <<>>
        /\ \A i \in 1..Len(workouts) : workouts[i].id # list[k].dataId)
         => /\ uncaught' = "none"
            /\ UNCHANGED <<workouts, storage, mapView>>]_vars

\* C7: a click that selects a workout adds one to that workout's counter and
\* changes nothing else of the collection.
C7_SelectionCounts ==
  [][\A k \in 1..Len(list) :
       (moveToPopup(k) /\ find(workouts, list[k].dataId) # 0)
         => LET i == find(workouts, list[k].dataId)
            IN  workouts' = [workouts EXCEPT ![i].clicks = @ + 1]]_vars

\* What tells one workout of the collection from another.
Identity(w) == <<w.id, w.date, w.coords, w.type, w.distance, w.duration, Extra(w)>>

\* C8 as stated: once startup has rendered the loaded workouts, the list shows
\* the workouts top to bottom in the order of the collection.
C8_ListInCollectionOrder ==
  started => /\ Len(list) = Len(workouts)
             /\ \A i \in 1..Len(list) : list[i] = renderWorkout(workouts[i])

\* C8 (amended): once startup has rendered the loaded workouts, the list shows
\* the workouts top to bottom in the reverse of the collection's order, the
\* newest first; and while the page lives no step reorders or removes a
\* workout of the collection.
C8_ListNewestFirst ==
  /\ [](started => /\ Len(list) = Len(workouts)
                   /\ \A i \in 1..Len(list) :
                        list[i] = renderWorkout(workouts[Len(workouts) - i + 1]))
  /\ [][pc = "run" /\ pc' = "run"
          => /\ Len(workouts) <= Len(workouts')
             /\ \A i \in 1..Len(workouts) :
                  Identity(workouts'[i]) = Identity(workouts[i])]_vars

\* C8 witness: a loaded workout and a created one of the other variant are
\* both in the list.
C8_Witness ==
  /\ started
  /\ Len(workouts) = 2
  /\ workouts[1].class = "Object"
  /\ workouts[1].type = "cycling"
  /\ workouts[2].class = "Running"
  /\ Len(list) = 2

\* a * b = c for the numbers a, b and c
Times(a, b, c) == a.d > 0 /\ b.d > 0 /\ c.d > 0 /\ a.n * b.n * c.d = c.n * a.d * b.d

\* C9: a workout built by Running has pace = duration / distance (6 for distance
\* 5 and duration 30), one built by Cycling has speed = distance / (duration /
\* 60), and no later step of the page changes the metric of a workout.
C9_DerivedMetric ==
  /\ [](\A i \in 1..Len(workouts) :
          LET w == workouts[i]
          IN  /\ w.class = "Running"
                   => /\ Times(w.pace, w.distance, w.duration)
                      /\ (w.distance = Num(5) /\ w.duration = Num(30) => w.pace = Num(6))
              /\ w.class = "Cycling"
                   => Times(w.speed, w.duration, [n |-> 60 * w.distance.n, d |-> w.distance.d]))
  /\ [][pc = "run" /\ pc' = "run"
          => \A i \in 1..Len(workouts) :
               /\ i <= Len(workouts')
               /\ Metric(workouts'[i]) = Metric(workouts[i])]_vars

\* C9 witness: a running workout of 5 km in 30 min and a cycling workout were
\* created, and a later handler (a list click) has run.
C9_Witness ==
  /\ Len(workouts) = 2
  /\ workouts[1].class = "Running"
  /\ workouts[1].distance = Num(5)
  /\ workouts[1].pace = Num(6)
  /\ workouts[2].class = "Cycling"
  /\ workouts[2].speed = Num(60)
  /\ mapView.center = workouts[1].coords

\* The elements of the sequence shown equal to x are as many as the workouts
\* that f shows as x.
SameCount(shown, f(_), x) ==
  Cardinality({j \in 1..Len(shown) : shown[j] = x})
    = Cardinality({i \in 1..Len(workouts) : f(workouts[i]) = x})

\* C10: the map loads only after the constructor has loaded and rendered the
\* stored workouts; after the map has loaded every workout has exactly one
\* marker and one list entry, and before that there is no marker and every
\* workout has exactly one list entry.
C10_LoadBeforeMap ==
  /\ mapLoaded => pc = "run"
  /\ Len(list) = Len(workouts)
  /\ \A i \in 1..Len(workouts) :
       SameCount(list, renderWorkout, renderWorkout(workouts[i]))
  /\ ~mapLoaded => markers = <<>>
  /\ mapLoaded
       => /\ Len(markers) = Len(workouts)
          /\ \A i \in 1..Len(workouts) :
               SameCount(markers, renderWorkoutMarker, renderWorkoutMarker(workouts[i]))

\* C10 witness: the map loaded after two stored workouts were loaded, and each
\* has its marker.
C10_Witness ==
  /\ mapLoaded
  /\ Len(workouts) = 2
  /\ workouts[1].class = "Object"
  /\ workouts[2].class = "Object"
  /\ workouts[1] # workouts[2]
  /\ Len(markers) = 2
====
